---- MODULE Spec2Model ----
(***************************************************************************)
(* Conversation state of the chat assistant (App component) together with  *)
(* the prompt form, the persona settings panel and the generation service. *)
(* A text is a sequence of string segments: a keyboard character is a      *)
(* one-character segment, a literal of the source is one segment, and      *)
(* string concatenation is \o.                                             *)
(***************************************************************************)
EXTENDS Integers, Sequences, FiniteSets, TLC

VARIABLES systemInstruction, messages, isLoading, error, inFlight, last, hist

\* systemInstruction, messages, isLoading, error: the App state (useState).
\* inFlight: the generateContent calls awaited by handleSendMessage, each with
\*   the arguments it was called with.
\* last: the handler that ran last, its argument and the Conversation length
\*   it found.  hist: the Conversation length found by the latest dispatch and
\*   whether a persona was saved since.  Both only record; no handler reads them.
\* The `disabled` attributes of the prompt field and button are presentation;
\* the handlers carry their own guards, and those are what is modelled.
vars == <<systemInstruction, messages, isLoading, error, inFlight, last, hist>>

\* ----- bounds -----
MaxLen == 3        \* longest raw text typed into the prompt field
MaxMessages == 4   \* longest Conversation explored

\* ----- types.ts -----
USER == "user"
MODEL == "model"

Message(role, text) == [role |-> role, text |-> text]

\* ----- texts -----
Chars == {" ", "a"}
Whitespace == {" "}

RawPrompts == UNION {[1..n -> Chars] : n \in 0..MaxLen}

INITIAL_SYSTEM_PROMPT == <<"You are a helpful and witty Telegram bot assistant.">>

Personas == {<<>>, INITIAL_SYSTEM_PROMPT, <<"Be terse.">>}

\* error: string | null
NULL == <<>>
Some(t) == <<t>>

\* String.prototype.includes on segment texts
includes(t, d) == \E i \in 0..(Len(t) - Len(d)) : SubSeq(t, i + 1, i + Len(d)) = d

RECURSIVE TrimStart(_)
TrimStart(s) == IF s # <<>> /\ Head(s) \in Whitespace THEN TrimStart(Tail(s)) ELSE s

RECURSIVE TrimEnd(_)
TrimEnd(s) == IF s # <<>> /\ s[Len(s)] \in Whitespace
              THEN TrimEnd(SubSeq(s, 1, Len(s) - 1)) ELSE s

Trim_Identity(s) == s

\* String.prototype.trim
Trim(s) == TrimEnd(TrimStart(s))

\* JavaScript truthiness of a string
Truthy(s) == s # <<>>

\* ----- generation service -----
ApiKeyNotValid == <<"API key not valid">>

ErrorMessages == { <<"[400] ", "API key not valid", ". Please pass a valid API key.">>,
                   <<"fetch failed">> }

\* what ai.models.generateContent can do: resolve with a text, reject with an
\* Error carrying a message, or reject with a value that is not an Error
SdkOutcomes == { [kind |-> "ok", text |-> <<"Hi there!">>] }
               \cup { [kind |-> "error", text |-> m] : m \in ErrorMessages }
               \cup { [kind |-> "other", text |-> <<>>] }

InvalidKeyText == <<"Error: The provided API key is not valid. Please ensure you have a valid Gemini API key set up.">>
CommunicationPrefix == <<"An error occurred while communicating with the Gemini API: ">>
UnknownErrorText == <<"An unknown error occurred. Please check the console for details.">>

\* a fulfilled promise; a rejected one has kind "throw" and isError for
\* `e instanceof Error`
Return(text) == [kind |-> "return", text |-> text, isError |-> FALSE]

\* the completion of generateContent: how the promise it returns settles
generateContent(sysInstr, userPrompt, o) ==
    IF o.kind = "ok" THEN Return(o.text)
    ELSE IF o.kind = "error"
         THEN IF includes(o.text, ApiKeyNotValid)
              THEN Return(InvalidKeyText)
              ELSE Return(CommunicationPrefix \o o.text)
         ELSE Return(UnknownErrorText)

\* ----- App -----
Init ==
    /\ systemInstruction = INITIAL_SYSTEM_PROMPT
    /\ messages = <<>>
    /\ isLoading = FALSE
    /\ error = NULL
    /\ inFlight = <<>>
    /\ last = [op |-> "init", arg |-> <<>>, kind |-> "", n |-> 0]
    /\ hist = [base |-> 0, saved |-> FALSE]

Event(op, arg, kind) == [op |-> op, arg |-> arg, kind |-> kind, n |-> Len(messages)]

\* handleSendMessage up to its await: the user message, the busy flag, the call
Dispatch(prompt) ==
    /\ messages' = Append(messages, Message(USER, prompt))
    /\ isLoading' = TRUE
    /\ error' = NULL
    /\ inFlight' = Append(inFlight, [systemInstruction |-> systemInstruction,
                                     userPrompt |-> prompt])
    /\ hist' = [base |-> Len(messages), saved |-> FALSE]
    /\ UNCHANGED systemInstruction

handleSendMessage(prompt) ==
    IF ~Truthy(prompt) \/ isLoading
    THEN UNCHANGED <<systemInstruction, messages, isLoading, error, inFlight, hist>>
    ELSE Dispatch(prompt)

handleSubmit_Ungated(raw) ==
    /\ Len(messages) + 2 <= MaxMessages
    /\ last' = Event("handleSubmit", raw, "")
    /\ IF Truthy(Trim(raw))
       THEN Dispatch(Trim(raw))
       ELSE UNCHANGED <<systemInstruction, messages, isLoading, error, inFlight, hist>>

\* PromptForm.handleSubmit with the prompt field holding raw
handleSubmit(raw) ==
    /\ Len(messages) + 2 <= MaxMessages
    /\ last' = Event("handleSubmit", raw, "")
    /\ IF Truthy(Trim(raw)) /\ ~isLoading
       THEN handleSendMessage(Trim(raw))
       ELSE UNCHANGED <<systemInstruction, messages, isLoading, error, inFlight, hist>>

RemoveAt(s, i) == SubSeq(s, 1, i - 1) \o SubSeq(s, i + 1, Len(s))

Resume_KeepBusy(i, o) ==
    LET call == inFlight[i]
        r == generateContent(call.systemInstruction, call.userPrompt, o)
    IN /\ last' = Event("settle", o.text, o.kind)
       /\ inFlight' = RemoveAt(inFlight, i)
       /\ messages' = Append(messages, Message(MODEL, r.text))
       /\ UNCHANGED <<systemInstruction, hist, error, isLoading>>

Resume_DropStale(i, o) ==
    LET call == inFlight[i]
        r == generateContent(call.systemInstruction, call.userPrompt, o)
    IN /\ last' = Event("settle", o.text, o.kind)
       /\ inFlight' = RemoveAt(inFlight, i)
       /\ messages' = IF call.systemInstruction = systemInstruction
                      THEN Append(messages, Message(MODEL, r.text))
                      ELSE messages
       /\ isLoading' = FALSE
       /\ UNCHANGED <<systemInstruction, hist, error>>

Resume_NoReplyOnFailure(i, o) ==
    LET call == inFlight[i]
        r == generateContent(call.systemInstruction, call.userPrompt, o)
    IN /\ last' = Event("settle", o.text, o.kind)
       /\ inFlight' = RemoveAt(inFlight, i)
       /\ messages' = IF o.kind = "ok"
                      THEN Append(messages, Message(MODEL, r.text))
                      ELSE messages
       /\ isLoading' = FALSE
       /\ UNCHANGED <<systemInstruction, hist, error>>

\* handleSendMessage from its await on: call i settles with SDK outcome o
Resume(i, o) ==
    LET call == inFlight[i]
        r == generateContent(call.systemInstruction, call.userPrompt, o)
    IN /\ last' = Event("settle", o.text, o.kind)
       /\ inFlight' = RemoveAt(inFlight, i)
       /\ IF r.kind = "return"
          THEN /\ messages' = Append(messages, Message(MODEL, r.text))
               /\ error' = error
          ELSE LET errorMessage == IF r.isError THEN r.text
                                   ELSE <<"An unexpected error occurred.">>
               IN /\ error' = Some(errorMessage)
                  /\ messages' = Append(messages,
                        Message(MODEL, <<"Sorry, something went wrong: ">> \o errorMessage))
       /\ isLoading' = FALSE
       /\ UNCHANGED <<systemInstruction, hist>>

handleSaveSettings_KeepHistory(newInstruction) ==
    /\ last' = Event("handleSaveSettings", newInstruction, "")
    /\ systemInstruction' = newInstruction
    /\ hist' = [hist EXCEPT !.saved = TRUE]
    /\ UNCHANGED <<messages, isLoading, error, inFlight>>

handleSaveSettings_ToIdle(newInstruction) ==
    /\ last' = Event("handleSaveSettings", newInstruction, "")
    /\ systemInstruction' = newInstruction
    /\ messages' = <<>>
    /\ isLoading' = FALSE
    /\ hist' = [hist EXCEPT !.saved = TRUE]
    /\ UNCHANGED <<error, inFlight>>

\* Settings.handleSave -> App.handleSaveSettings
handleSaveSettings(newInstruction) ==
    /\ last' = Event("handleSaveSettings", newInstruction, "")
    /\ systemInstruction' = newInstruction
    /\ messages' = <<>>
    /\ hist' = [hist EXCEPT !.saved = TRUE]
    /\ UNCHANGED <<isLoading, error, inFlight>>

Submit == \E raw \in RawPrompts : handleSubmit(raw)
Save == \E p \in Personas : handleSaveSettings(p)
Settle == \E i \in DOMAIN inFlight : \E o \in SdkOutcomes : Resume(i, o)

Next == Submit \/ Save \/ Settle

Spec == Init /\ [][Next]_vars

\* ----- properties -----
IsBlank(t) == \A i \in DOMAIN t : t[i] \in Whitespace

SubmitStep == last'.op = "handleSubmit"
SaveStep == last'.op = "handleSaveSettings"
SettleStep == last'.op = "settle"
Dispatched == Len(inFlight') = Len(inFlight) + 1

\* C1: a submit of empty or whitespace-only text appends no Message, does not
\* set the busy flag and dispatches no generation call.
C1_BlankSubmitIsNoOp ==
    [][(SubmitStep /\ IsBlank(last'.arg))
         => UNCHANGED <<messages, isLoading, inFlight>>]_vars

C1_Witness ==
    /\ last.op = "handleSubmit"
    /\ last.arg = <<" ", " ">>
    /\ messages = <<>>
    /\ ~isLoading
    /\ inFlight = <<>>

\* C2: a submit of non-blank text while the busy flag is set appends no
\* Message, dispatches no second call and leaves the busy flag, the persona and
\* the error banner unchanged.
C2_BusySubmitIsNoOp ==
    [][(SubmitStep /\ ~IsBlank(last'.arg) /\ isLoading)
         => UNCHANGED <<messages, inFlight, isLoading, systemInstruction, error>>]_vars

C2_Witness ==
    /\ last.op = "handleSubmit"
    /\ ~IsBlank(last.arg)
    /\ isLoading
    /\ Len(inFlight) = 1
    /\ Len(messages) = last.n
    /\ inFlight[1].userPrompt # Trim(last.arg)

\* C3: at most one generation call is in flight, and the busy flag is set
\* exactly when one call is in flight.
C3_OneCallInFlight ==
    /\ Len(inFlight) <= 1
    /\ isLoading <=> (Len(inFlight) = 1)

C3_Witness ==
    /\ Len(inFlight) = 1
    /\ isLoading
    /\ hist.saved
    /\ last.op = "handleSubmit"

\* C4 as stated: every accepted submission, a persona save in between or not,
\* leaves the Conversation two entries longer once its call has settled: the
\* user Message with the trimmed prompt, then one assistant Message.
C4_Original ==
    [][/\ (SubmitStep /\ Dispatched)
            => messages' = Append(messages, Message(USER, Trim(last'.arg)))
       /\ SettleStep
            => /\ Len(messages') = hist.base + 2
               /\ messages'[hist.base + 1] = Message(USER, inFlight[1].userPrompt)
               /\ messages'[hist.base + 2].role = MODEL
               /\ SubSeq(messages', 1, hist.base + 1) = messages]_vars

\* C4 amended: the same, for the submissions whose call settles with no
\* persona save since the dispatch.
C4_TwoEntriesPerSubmission ==
    [][/\ (SubmitStep /\ Dispatched)
            => messages' = Append(messages, Message(USER, Trim(last'.arg)))
       /\ (SettleStep /\ ~hist.saved)
            => /\ Len(messages') = hist.base + 2
               /\ messages'[hist.base + 1] = Message(USER, inFlight[1].userPrompt)
               /\ messages'[hist.base + 2].role = MODEL
               /\ SubSeq(messages', 1, hist.base + 1) = messages]_vars

C4_Witness ==
    /\ last.op = "settle"
    /\ last.kind = "error"
    /\ ~hist.saved
    /\ hist.base = 2
    /\ Len(messages) = 4
    /\ messages[3].role = USER
    /\ messages[4].role = MODEL

\* the text the user is shown for each failure category
FailureDescription(kind, msg) ==
    IF kind = "other" THEN UnknownErrorText
    ELSE IF includes(msg, ApiKeyNotValid) THEN InvalidKeyText
    ELSE CommunicationPrefix

\* C5: every failed generation call (invalid credential, communication
\* failure, unknown failure) yields an assistant Message containing the
\* category's description and a non-null error banner.
C5_FailureMessageAndBanner ==
    [][(SettleStep /\ last'.kind \in {"error", "other"})
         => /\ messages' # <<>>
            /\ messages'[Len(messages')].role = MODEL
            /\ includes(messages'[Len(messages')].text,
                        FailureDescription(last'.kind, last'.arg))
            /\ error' # NULL]_vars

\* C6: the busy flag is set from the dispatch of a call until it settles and
\* is clear once it has settled, whatever the outcome; a non-blank submit
\* made when it is clear is accepted.
C6_BusyUntilSettled ==
    [][/\ (SubmitStep /\ Dispatched) => isLoading'
       /\ (inFlight' # <<>>) => isLoading'
       /\ SettleStep => (isLoading /\ ~isLoading')
       /\ (SubmitStep /\ ~IsBlank(last'.arg) /\ ~isLoading) => (Dispatched /\ isLoading')]_vars

C6_Witness ==
    /\ last.op = "handleSubmit"
    /\ isLoading
    /\ hist.base = 2
    /\ Len(messages) = 3
    /\ messages[2].role = MODEL
    /\ messages[2].text # <<"Hi there!">>

\* C7: a persona save empties the Conversation whatever its length and sets
\* the persona to the saved string, the empty one included; a dispatched call
\* is passed the persona current at its dispatch.
C7_SaveClearsAndSetsPersona ==
    [][/\ SaveStep => (messages' = <<>> /\ systemInstruction' = last'.arg)
       /\ (SubmitStep /\ Dispatched)
            => inFlight'[Len(inFlight')].systemInstruction = systemInstruction]_vars

C7_Witness ==
    /\ last.op = "handleSubmit"
    /\ Len(inFlight) = 1
    /\ inFlight[1].systemInstruction = <<>>
    /\ systemInstruction = <<>>
    /\ messages = <<Message(USER, inFlight[1].userPrompt)>>

\* C8 as stated: after a persona save, fired in Idle or in Pending, the busy
\* flag is clear and the Conversation is empty.
C8_Original ==
    [][SaveStep => (~isLoading' /\ messages' = <<>>)]_vars

\* C8 amended: a persona save empties the Conversation and leaves the busy
\* flag and the call in flight as they were: fired in Idle the system stays
\* Idle, fired in Pending it stays Pending until the call settles.
C8_SaveKeepsBusy ==
    [][SaveStep => /\ messages' = <<>>
                   /\ isLoading' = isLoading
                   /\ inFlight' = inFlight]_vars

C8_Witness ==
    /\ last.op = "handleSaveSettings"
    /\ last.n > 0
    /\ isLoading
    /\ Len(inFlight) = 1
    /\ messages = <<>>

\* C9: a call in flight across a persona save still settles; its reply is
\* appended to the cleared Conversation, which then is that one assistant
\* Message, and the call keeps the persona it was dispatched with.
C9_NoCancellation ==
    [][/\ (SettleStep /\ hist.saved)
            => /\ Len(messages') = 1
               /\ messages'[1].role = MODEL
               /\ inFlight' = <<>>
       /\ (SaveStep /\ inFlight # <<>>) => inFlight' = inFlight]_vars

C9_Witness ==
    /\ last.op = "settle"
    /\ hist.saved
    /\ systemInstruction = <<"Be terse.">>
    /\ messages = <<Message(MODEL, <<"Hi there!">>)>>
    /\ ~isLoading

\* C10: no two adjacent Messages have the same role, and while the busy flag
\* is set a non-empty Conversation ends with a user Message.
C10_RolesAlternate ==
    /\ \A i \in 1..(Len(messages) - 1) : messages[i].role # messages[i + 1].role
    /\ (isLoading /\ messages # <<>>) => messages[Len(messages)].role = USER

C10_Witness ==
    /\ isLoading
    /\ Len(messages) = 2
    /\ messages[1].role = MODEL
    /\ messages[2].role = USER

====
